---- MODULE Spec2Model ----
(***************************************************************************)
(* Task-assignment and load-rebalancing coordinator of multi_agent_pm.     *)
(*                                                                         *)
(* The Task Store (tasks_store) and the Load Registry (agent_loads) are    *)
(* the two dictionaries built by WorkflowCoordinator.__init__ and shared   *)
(* by the ManagerAgent, the EngineerAgents and the TesterAgents.  In Spec   *)
(* and SpecRebalance every api_* handler and rebalance_workload is one     *)
(* atomic action.  run_system starts one thread per agent server and one   *)
(* for the periodic rebalancer, without any lock: SpecTesters and SpecRace *)
(* run the handlers of different threads in steps that interleave.         *)
(*                                                                         *)
(* Abstractions: created_at / updated_at, titles, descriptions and         *)
(* free-text notes are dropped; the append-only comments list of a task is *)
(* kept as its length; a task id "TASK-xxxxxxxx" is a natural number; what *)
(* a handler returns or raises is the <<status code, detail>> pair of its  *)
(* *Check / *Response operator and is not part of the state.               *)
(***************************************************************************)
EXTENDS Integers, Sequences, FiniteSets, TLC

VARIABLES
  tasks_store,  \* WorkflowCoordinator.tasks_store
  agent_loads,  \* WorkflowCoordinator.agent_loads
  pc,           \* where each thread of run_system stands in its handler
  frame,        \* the request and the locals of the call a thread is in
  start         \* the store and the registry when the threads were started

vars == <<tasks_store, agent_loads, pc, frame, start>>

thread_vars == <<pc, frame, start>>

(***************************************************************************)
(* Bounds of the model: tasks created, the value a load counter may reach  *)
(* by an assignment, and comments appended over the whole store.           *)
(***************************************************************************)
MaxTasks == 2
MaxCount == 2
MaxComments == 3

(***************************************************************************)
(* Startup configuration (environment variables read by the coordinator).  *)
(***************************************************************************)
MANAGER_MAX_CAPACITY == 1
ENGINEER_MAX_CAPACITY == 1
TESTER_MAX_CAPACITY == 1

None == "None"

\* An agent id that is no key of agent_loads.
Stranger == "Stranger"

TaskIds == 1..MaxTasks

(***************************************************************************)
(* common.py                                                               *)
(***************************************************************************)
TaskStatus ==
  {"pending", "in_progress", "completed", "failed", "testing", "approved", "rejected"}

TaskPriority == {"low", "medium", "high", "critical"}

TaskType == {"feature", "bug", "improvement", "documentation"}

NoTestResults == [tester |-> None, status |-> None]

Task(id, task_type, priority) ==
  [ id           |-> id,
    status       |-> "pending",
    priority     |-> priority,
    task_type    |-> task_type,
    assigned_to  |-> None,
    dependencies |-> <<>>,
    comments     |-> 0,
    test_results |-> NoTestResults ]

AgentLoad(agent_id, agent_type, max_capacity) ==
  [ agent_id      |-> agent_id,
    agent_type    |-> agent_type,
    current_tasks |-> 0,
    max_capacity  |-> max_capacity ]

\* load_percentage is the float (current_tasks / max_capacity) * 100.0; it is
\* kept as the exact fraction <<numerator, denominator>>, denominator > 0.
load_percentage(load) ==
  IF load.max_capacity = 0
  THEN <<0, 1>>
  ELSE <<load.current_tasks * 100, load.max_capacity>>

PctLess(p, q) == p[1] * q[2] < q[1] * p[2]

PctAbove(p, n) == p[1] > n * p[2]

PctBelow(p, n) == p[1] < n * p[2]

available_capacity(load) ==
  IF load.max_capacity - load.current_tasks > 0
  THEN load.max_capacity - load.current_tasks
  ELSE 0

(***************************************************************************)
(* workflow/coordinator.py: construction                                   *)
(***************************************************************************)
\* Insertion order of the agent_loads dictionary.
AgentOrder ==
  <<"ProjectManager", "Engineer1", "Engineer2", "Engineer3", "Tester1", "Tester2">>

Engineers == {"Engineer1", "Engineer2", "Engineer3"}

Testers == {"Tester1", "Tester2"}

AgentIds == {AgentOrder[i] : i \in 1..Len(AgentOrder)}

InitialLoads ==
  [a \in AgentIds |->
     IF a = "ProjectManager" THEN AgentLoad(a, "manager", MANAGER_MAX_CAPACITY)
     ELSE IF a \in Engineers THEN AgentLoad(a, "engineer", ENGINEER_MAX_CAPACITY)
     ELSE AgentLoad(a, "tester", TESTER_MAX_CAPACITY)]

\* The threads of run_system that take part in the models: the manager's and
\* the testers' API servers, the rebalancer, and the main thread, which runs
\* the message loop of lines 288-304.
Threads == {"ProjectManager", "Tester1", "Tester2", "Rebalancer", "Main"}

\* No call yet: op is the handler, task_id / agent_id / approve its request,
\* chosen and cursor its locals, used the size of the dictionary its iterator
\* was created on, result the status code it ended with.
NoFrame ==
  [op |-> None, task_id |-> 0, agent_id |-> None, approve |-> FALSE,
   chosen |-> None, cursor |-> 0, used |-> 0, result |-> 0]

ThreadsIdle ==
  /\ pc = [t \in Threads |-> "idle"]
  /\ frame = [t \in Threads |-> NoFrame]
  /\ start = [store |-> tasks_store, loads |-> agent_loads]

Init ==
  /\ tasks_store = <<>>
  /\ agent_loads = InitialLoads
  /\ ThreadsIdle

(***************************************************************************)
(* Dictionary helpers: tasks_store is kept in insertion order.             *)
(***************************************************************************)
\* The number of comments held in the whole store (bounded by MaxComments).
RECURSIVE SumComments(_, _)
SumComments(store, i) ==
  IF i > Len(store) THEN 0 ELSE store[i].comments + SumComments(store, i + 1)

TotalComments(store) == SumComments(store, 1)

HasTask(store, task_id) == \E i \in 1..Len(store) : store[i].id = task_id

IndexOf(store, task_id) == CHOOSE i \in 1..Len(store) : store[i].id = task_id

InRegistry(loads, agent_id) == agent_id \in DOMAIN loads

AddLoad(loads, agent_id, n) ==
  [loads EXCEPT ![agent_id].current_tasks = @ + n]

(***************************************************************************)
(* ManagerAgent.api_create_task                                            *)
(***************************************************************************)
\* The tokens str(uuid.uuid4())[:8] can yield: nothing compares the token
\* with the keys of the store, so it is either a key the store holds already
\* or a new one (all new tokens behave alike: the next free number stands
\* for them, while the store has room for another key).
NewTaskIds(store) ==
  {store[i].id : i \in 1..Len(store)} \cup
    (IF Len(store) < MaxTasks THEN {Len(store) + 1} ELSE {})

\* A conversion that stores the request's string as it came.
ParsePriority_KeepsInput(s) == s

ParsePriority(s) == IF s \in TaskPriority THEN s ELSE "medium"

ParseTaskType(s) == IF s \in TaskType THEN s ELSE "feature"

PriorityInputs == {"medium", "urgent"}

TypeInputs == {"feature", "pending"}

\* A store that is emptied before the new task is written.
StoredTask_DropsOthers(store, task) == <<task>>

\* self.tasks_store[task_id] = task: a held key keeps its place and gets the
\* new value, a new key goes to the end.
StoredTask(store, task) ==
  IF HasTask(store, task.id)
  THEN [store EXCEPT ![IndexOf(store, task.id)] = task]
  ELSE Append(store, task)

api_create_task(task_id, priority, task_type) ==
  /\ UNCHANGED thread_vars
  /\ /\ task_id \in NewTaskIds(tasks_store)
     /\ tasks_store' =
          StoredTask(tasks_store,
                     Task(task_id, ParseTaskType(task_type), ParsePriority(priority)))
     /\ UNCHANGED agent_loads

(***************************************************************************)
(* ManagerAgent.api_assign_task                                            *)
(***************************************************************************)
\* The engineers of the registry, in the order the dictionary iterates
\* (lines 382-386); suitable_agents_AnyType is the loop without its test of
\* agent_type.
suitable_agents_AnyType(loads) ==
  SelectSeq(AgentOrder, LAMBDA a : InRegistry(loads, a))

suitable_agents(loads) ==
  SelectSeq(AgentOrder,
            LAMBDA a : InRegistry(loads, a) /\ loads[a].agent_type = "engineer")

\* Python's min(seq, key=load_percentage): a left-to-right scan that replaces
\* the running minimum only by a strictly smaller key.
RECURSIVE min_scan(_, _, _, _)
min_scan(loads, seq, i, best) ==
  IF i > Len(seq)
  THEN best
  ELSE min_scan(loads, seq, i + 1,
                IF PctLess(load_percentage(loads[seq[i]]), load_percentage(loads[best]))
                THEN seq[i]
                ELSE best)

\* min_load_agent keeping the last of the tied minima (a scan with <=).
RECURSIVE min_scan_last(_, _, _, _)
min_scan_last(loads, seq, i, best) ==
  IF i > Len(seq)
  THEN best
  ELSE min_scan_last(loads, seq, i + 1,
                     IF ~PctLess(load_percentage(loads[best]), load_percentage(loads[seq[i]]))
                     THEN seq[i]
                     ELSE best)

min_load_agent_LastMinimum(loads, seq) == min_scan_last(loads, seq, 2, seq[1])

min_load_agent(loads, seq) == min_scan(loads, seq, 2, seq[1])

\* Lines 398-399: the task as api_assign_task rewrites it.
AssignedTask(task, agent_id) ==
  [task EXCEPT !.assigned_to = agent_id, !.status = "in_progress"]

AgentArgs == {None, Stranger, "Engineer2", "Tester1"}

\* Lines 378-395: "if not agent_id" takes the engineer min() returns.
ChosenAgent(loads, agent_id) ==
  IF agent_id = None
  THEN min_load_agent(loads, suitable_agents(loads))
  ELSE agent_id

\* What the handler returns or raises, in the order of its checks.
AssignResponse(store, loads, task_id, agent_id) ==
  IF ~HasTask(store, task_id) THEN <<404, "task_not_found">>
  ELSE IF agent_id = None /\ suitable_agents(loads) = <<>>
       THEN <<200, "no_suitable_engineers">>
  ELSE IF ~InRegistry(loads, ChosenAgent(loads, agent_id)) THEN <<500, "KeyError">>
  ELSE <<200, "assigned">>

\* Line 403.
AssignedLoads(loads, agent_id) == AddLoad(loads, agent_id, 1)

api_assign_task(task_id, agent_id) ==
  /\ UNCHANGED thread_vars
  /\ LET resp == AssignResponse(tasks_store, agent_loads, task_id, agent_id)
     IN  IF resp[2] \in {"task_not_found", "no_suitable_engineers"}
         THEN UNCHANGED <<tasks_store, agent_loads>>
         ELSE LET i      == IndexOf(tasks_store, task_id)
                  chosen == ChosenAgent(agent_loads, agent_id)
              IN  /\ tasks_store' = [tasks_store EXCEPT ![i] = AssignedTask(@, chosen)]
                  /\ IF resp[2] = "KeyError"
                     THEN \* agent_loads[agent_id] raises at line 403, after the
                          \* task was rewritten in place at lines 398-399.
                          UNCHANGED agent_loads
                     ELSE /\ agent_loads[chosen].current_tasks < MaxCount
                          /\ agent_loads' = AssignedLoads(agent_loads, chosen)

(***************************************************************************)
(* ManagerAgent.api_review_task                                            *)
(***************************************************************************)
\* Lines 466-471.
ReviewStatus(approve) == IF approve THEN "approved" ELSE "rejected"

\* Lines 476-477.
ReviewComments(task, comment) ==
  IF comment THEN task.comments + 1 ELSE task.comments

\* RejectedTask without line 481: the status set at line 470 stays.
RejectedTask_StaysRejected(task) ==
  IF task.assigned_to # None THEN [task EXCEPT !.assigned_to = None] ELSE task

\* RejectedTask without line 484: the assignee survives the rejection.
RejectedTask_KeepsAssignee(task) == [task EXCEPT !.status = "pending"]

\* Lines 480-484, on the task whose status was already rewritten.
RejectedTask(task) ==
  IF task.assigned_to # None
  THEN [task EXCEPT !.status = "pending", !.assigned_to = None]
  ELSE [task EXCEPT !.status = "pending"]

\* RejectedLoads reading assigned_to after it was cleared: nobody is released.
RejectedLoads_AfterClear(loads, task) == loads

RejectedLoads(loads, task) ==
  IF task.assigned_to # None
  THEN AddLoad(loads, task.assigned_to, -1)
  ELSE loads

\* Lines 487-491, on the task whose status was already rewritten at 467.
ApprovedLoads(loads, task) ==
  IF task.status = "testing"
       /\ \E a \in DOMAIN loads : loads[a].agent_type = "tester" /\ task.assigned_to = a
  THEN AddLoad(loads, task.assigned_to, -1)
  ELSE loads

\* Lines 466-477: status and comments rewritten before the loads are touched.
MarkedTask(task, approve, comment) ==
  [task EXCEPT !.status = ReviewStatus(approve),
               !.comments = ReviewComments(task, comment)]

\* What the handler returns or raises, in the order of its checks.
ReviewResponse(store, loads, task_id, approve) ==
  IF ~HasTask(store, task_id) THEN <<404, "task_not_found">>
  ELSE IF store[IndexOf(store, task_id)].status \notin {"completed", "testing"}
       THEN <<200, "not_ready_for_review">>
  ELSE IF approve THEN <<200, "approved">>
  ELSE IF store[IndexOf(store, task_id)].assigned_to # None
            /\ ~InRegistry(loads, store[IndexOf(store, task_id)].assigned_to)
       THEN <<500, "KeyError">>
  ELSE <<200, "rejected">>

api_review_task(task_id, approve, comment) ==
  /\ UNCHANGED thread_vars
  /\ LET resp == ReviewResponse(tasks_store, agent_loads, task_id, approve)
     IN  IF resp[2] \in {"task_not_found", "not_ready_for_review"}
         THEN UNCHANGED <<tasks_store, agent_loads>>
         ELSE LET i      == IndexOf(tasks_store, task_id)
                  marked == MarkedTask(tasks_store[i], approve, comment)
              IN  /\ comment => TotalComments(tasks_store) < MaxComments
                  /\ IF resp[2] = "approved"
                     THEN /\ tasks_store' = [tasks_store EXCEPT ![i] = marked]
                          /\ agent_loads' = ApprovedLoads(agent_loads, marked)
                     ELSE IF resp[2] = "KeyError"
                     THEN \* agent_loads[task.assigned_to] raises at line 483,
                          \* after line 481 set the status.
                          /\ tasks_store' =
                               [tasks_store EXCEPT ![i] = [marked EXCEPT !.status = "pending"]]
                          /\ UNCHANGED agent_loads
                     ELSE /\ tasks_store' = [tasks_store EXCEPT ![i] = RejectedTask(marked)]
                          /\ agent_loads' = RejectedLoads(agent_loads, marked)

(***************************************************************************)
(* EngineerAgent.api_work_on_task / api_complete_task                      *)
(***************************************************************************)
\* EngineerCheck testing the status before the assignee.
EngineerCheck_StatusFirst(store, name, task_id) ==
  IF ~HasTask(store, task_id) THEN <<404, "task_not_found">>
  ELSE IF store[IndexOf(store, task_id)].status # "in_progress"
       THEN <<400, "not_in_progress">>
  ELSE IF store[IndexOf(store, task_id)].assigned_to # name
       THEN <<403, "not_assigned_to_me">>
  ELSE <<200, "success">>

\* Lines 350-362 and 388-400: the checks both handlers share, in their order.
EngineerCheck(store, name, task_id) ==
  IF ~HasTask(store, task_id) THEN <<404, "task_not_found">>
  ELSE IF store[IndexOf(store, task_id)].assigned_to # name
       THEN <<403, "not_assigned_to_me">>
  ELSE IF store[IndexOf(store, task_id)].status # "in_progress"
       THEN <<400, "not_in_progress">>
  ELSE <<200, "success">>

WorkedTask(task) == [task EXCEPT !.comments = @ + 1]

api_work_on_task(name, task_id) ==
  /\ UNCHANGED thread_vars
  /\ LET check == EngineerCheck(tasks_store, name, task_id)
     IN  /\ UNCHANGED agent_loads
         /\ IF check[1] # 200
            THEN UNCHANGED tasks_store
            ELSE LET i == IndexOf(tasks_store, task_id)
                 IN  /\ TotalComments(tasks_store) < MaxComments
                     /\ tasks_store' = [tasks_store EXCEPT ![i] = WorkedTask(@)]

CompletedTask(task) ==
  [task EXCEPT !.status = "completed", !.comments = @ + 1]

api_complete_task(name, task_id) ==
  /\ UNCHANGED thread_vars
  /\ LET check == EngineerCheck(tasks_store, name, task_id)
     IN  /\ UNCHANGED agent_loads
         /\ IF check[1] # 200
            THEN UNCHANGED tasks_store
            ELSE LET i == IndexOf(tasks_store, task_id)
                 IN  /\ TotalComments(tasks_store) < MaxComments
                     /\ tasks_store' = [tasks_store EXCEPT ![i] = CompletedTask(@)]

(***************************************************************************)
(* TesterAgent.api_test_task                                               *)
(***************************************************************************)
\* TestTaskCheck without the capacity check of lines 441-445.
TestTaskCheck_NoCapacity(store, loads, name, task_id) ==
  IF ~HasTask(store, task_id) THEN <<404, "task_not_found">>
  ELSE IF store[IndexOf(store, task_id)].status # "completed"
       THEN <<400, "not_ready_for_testing">>
  ELSE IF ~InRegistry(loads, name) THEN <<404, "load_not_available">>
  ELSE <<200, "success">>

\* Lines 425-445, in their order.
TestTaskCheck(store, loads, name, task_id) ==
  IF ~HasTask(store, task_id) THEN <<404, "task_not_found">>
  ELSE IF store[IndexOf(store, task_id)].status # "completed"
       THEN <<400, "not_ready_for_testing">>
  ELSE IF ~InRegistry(loads, name) THEN <<404, "load_not_available">>
  ELSE IF available_capacity(loads[name]) <= 0 THEN <<400, "cannot_take_more">>
  ELSE <<200, "success">>

\* ClaimedTask without line 448: the engineer stays the assignee.
ClaimedTask_KeepsAssignee(task, name) ==
  [task EXCEPT !.status = "testing", !.comments = @ + 1]

\* Lines 448-454.
ClaimedTask(task, name) ==
  [task EXCEPT !.assigned_to = name,
               !.status = "testing",
               !.comments = @ + 1]

\* ClaimedLoads without line 457: the claim is not counted.
ClaimedLoads_NotCounted(loads, name) == loads

\* Line 457.
ClaimedLoads(loads, name) == AddLoad(loads, name, 1)

api_test_task(name, task_id) ==
  /\ UNCHANGED thread_vars
  /\ LET check == TestTaskCheck(tasks_store, agent_loads, name, task_id)
     IN  IF check[1] # 200
            THEN UNCHANGED <<tasks_store, agent_loads>>
            ELSE LET i == IndexOf(tasks_store, task_id)
                 IN  /\ TotalComments(tasks_store) < MaxComments
                     /\ tasks_store' = [tasks_store EXCEPT ![i] = ClaimedTask(@, name)]
                     /\ agent_loads' = ClaimedLoads(agent_loads, name)

(***************************************************************************)
(* TesterAgent.api_submit_test_results                                     *)
(***************************************************************************)
\* SubmitCheck without the status check of lines 483-487.
SubmitCheck_AnyStatus(store, name, task_id) ==
  IF ~HasTask(store, task_id) THEN <<404, "task_not_found">>
  ELSE IF store[IndexOf(store, task_id)].assigned_to # name
       THEN <<403, "not_assigned_to_me">>
  ELSE <<200, "success">>

\* Lines 475-487, in their order.
SubmitCheck(store, name, task_id) ==
  IF ~HasTask(store, task_id) THEN <<404, "task_not_found">>
  ELSE IF store[IndexOf(store, task_id)].assigned_to # name
       THEN <<403, "not_assigned_to_me">>
  ELSE IF store[IndexOf(store, task_id)].status # "testing"
       THEN <<400, "not_in_testing">>
  ELSE <<200, "success">>

\* Lines 491-496.
TestResults(name, passed) ==
  [tester |-> name, status |-> IF passed THEN "passed" ELSE "failed"]

\* TestedTask that also advances the status on the verdict.
TestedTask_AdvancesStatus(task, name, passed) ==
  [task EXCEPT !.test_results = TestResults(name, passed),
               !.comments = @ + 1,
               !.status = IF passed THEN "approved" ELSE "rejected"]

\* Lines 499-503.
TestedTask(task, name, passed) ==
  [task EXCEPT !.test_results = TestResults(name, passed),
               !.comments = @ + 1]

api_submit_test_results(name, task_id, passed) ==
  /\ UNCHANGED thread_vars
  /\ LET check == SubmitCheck(tasks_store, name, task_id)
     IN  /\ UNCHANGED agent_loads
         /\ IF check[1] # 200
            THEN UNCHANGED tasks_store
            ELSE LET i == IndexOf(tasks_store, task_id)
                 IN  /\ TotalComments(tasks_store) < MaxComments
                     /\ tasks_store' = [tasks_store EXCEPT ![i] = TestedTask(@, name, passed)]

(***************************************************************************)
(* WorkflowCoordinator.rebalance_workload                                  *)
(***************************************************************************)
\* Lines 155-156.
ZeroedLoads(loads) == [a \in DOMAIN loads |-> [loads[a] EXCEPT !.current_tasks = 0]]

\* Lines 159-161: one task of the scan.
RECURSIVE CountedLoads(_, _, _)
CountedLoads(store, loads, i) ==
  IF i > Len(store)
  THEN loads
  ELSE CountedLoads(store,
                    IF store[i].assigned_to # None /\ InRegistry(loads, store[i].assigned_to)
                    THEN AddLoad(loads, store[i].assigned_to, 1)
                    ELSE loads,
                    i + 1)

\* ResyncedLoads without lines 155-161: the counters are taken as they are.
ResyncedLoads_NoRecount(store, loads) == loads

ResyncedLoads(store, loads) == CountedLoads(store, ZeroedLoads(loads), 1)

\* overloaded_engineers with the threshold of the underloaded side (50).
overloaded_engineers_Above50(loads) ==
  SelectSeq(AgentOrder,
            LAMBDA a : loads[a].agent_type = "engineer"
                         /\ PctAbove(load_percentage(loads[a]), 50))

\* Lines 164-167.
overloaded_engineers(loads) ==
  SelectSeq(AgentOrder,
            LAMBDA a : loads[a].agent_type = "engineer"
                         /\ PctAbove(load_percentage(loads[a]), 80))

\* Lines 170-173.
underloaded_engineers(loads) ==
  SelectSeq(AgentOrder,
            LAMBDA a : loads[a].agent_type = "engineer"
                         /\ PctBelow(load_percentage(loads[a]), 50))

\* Movable without the status test of line 181.
Movable_AnyStatus(task, over_id) ==
  /\ task.assigned_to = over_id
  /\ task.dependencies = <<>>

\* Movable without the owner test of line 180.
Movable_AnyAssignee(task, over_id) ==
  /\ task.status = "in_progress"
  /\ task.dependencies = <<>>

\* Lines 180-182.
Movable(task, over_id) ==
  /\ task.assigned_to = over_id
  /\ task.status = "in_progress"
  /\ task.dependencies = <<>>

\* Lines 185-186.
MovedTask(task, under_id) ==
  [task EXCEPT !.assigned_to = under_id, !.comments = @ + 1]

\* MovedLoads without line 189: the source keeps its count.
MovedLoads_NoDecrement(loads, over_id, under_id) == AddLoad(loads, under_id, 1)

\* Lines 189-190.
MovedLoads(loads, over_id, under_id) ==
  AddLoad(AddLoad(loads, over_id, -1), under_id, 1)

\* The local state of a pass from line 176 on: the store, the counters, and
\* the reassignments made so far (which task, from whom, to whom, and the
\* store and counters as they stood when line 185 was reached).
PassState(store, loads) == [store |-> store, loads |-> loads, moves |-> <<>>]

Move(st, i, over_id, under_id) ==
  [task |-> i, source |-> over_id, target |-> under_id,
   store |-> st.store, loads |-> st.loads]

\* Lines 179-191: the scan of the store for one (over_id, under_id) pair; the
\* first movable task is moved and the scan stops.
MoveFirst(st, over_id, under_id) ==
  LET found == {i \in 1..Len(st.store) : Movable(st.store[i], over_id)}
  IN  IF found = {}
      THEN st
      ELSE LET i == CHOOSE k \in found : \A j \in found : k <= j
           IN  [store |-> [st.store EXCEPT ![i] = MovedTask(@, under_id)],
                loads |-> MovedLoads(st.loads, over_id, under_id),
                moves |-> Append(st.moves, Move(st, i, over_id, under_id))]

\* Lines 177-195: the loop over the underloaded engineers for one over_id.
RECURSIVE UnderLoop(_, _, _, _)
UnderLoop(st, over_id, unders, k) ==
  IF k > Len(unders)
  THEN st
  ELSE LET st1 == MoveFirst(st, over_id, unders[k])
       IN  IF ~PctAbove(load_percentage(st1.loads[over_id]), 80)
           THEN st1
           ELSE UnderLoop(st1, over_id, unders, k + 1)

\* Lines 176-195: the loop over the overloaded engineers.
RECURSIVE OverLoop(_, _, _, _)
OverLoop(st, overs, unders, j) ==
  IF j > Len(overs)
  THEN st
  ELSE OverLoop(UnderLoop(st, overs[j], unders, 1), overs, unders, j + 1)

\* Lines 154-195 with the reassignments the pass makes.
Pass(store, loads) ==
  LET synced == ResyncedLoads(store, loads)
  IN  OverLoop(PassState(store, synced),
               overloaded_engineers(synced), underloaded_engineers(synced), 1)

Rebalanced(store, loads) ==
  LET st == Pass(store, loads)
  IN  [store |-> st.store, loads |-> st.loads]

rebalance_workload ==
  /\ UNCHANGED thread_vars
  /\ LET st == Rebalanced(tasks_store, agent_loads)
     IN  /\ TotalComments(st.store) <= MaxComments
         /\ tasks_store' = st.store
         /\ agent_loads' = st.loads

(***************************************************************************)
(* The system: callers and the periodic rebalancer, one handler at a time. *)
(***************************************************************************)
Next ==
  \/ \E id \in TaskIds, p \in PriorityInputs, t \in TypeInputs :
       api_create_task(id, p, t)
  \/ \E id \in TaskIds, a \in AgentArgs : api_assign_task(id, a)
  \/ \E id \in TaskIds, approve \in BOOLEAN, comment \in BOOLEAN :
       api_review_task(id, approve, comment)
  \/ \E e \in Engineers, id \in TaskIds : api_work_on_task(e, id)
  \/ \E e \in Engineers, id \in TaskIds : api_complete_task(e, id)
  \/ \E x \in Testers, id \in TaskIds : api_test_task(x, id)
  \/ \E x \in Testers, id \in TaskIds, passed \in BOOLEAN :
       api_submit_test_results(x, id, passed)
  \/ rebalance_workload

Spec == Init /\ [][Next]_vars

(***************************************************************************)
(* Vocabulary of the properties.                                           *)
(***************************************************************************)
TaskIndexes == 1..Len(tasks_store)

\* The number of tasks of the store whose assigned_to is agent_id.
AssignedCount(store, agent_id) ==
  Cardinality({i \in 1..Len(store) : store[i].assigned_to = agent_id})

Workers == {a \in DOMAIN agent_loads : agent_loads[a].agent_type \in {"engineer", "tester"}}

EngineerIds == {a \in DOMAIN agent_loads : agent_loads[a].agent_type = "engineer"}

\* Every load counter other than those of the agents in `except` keeps its value.
OtherLoadsUnchanged(except) ==
  \A a \in DOMAIN agent_loads \ except :
    agent_loads'[a].current_tasks = agent_loads[a].current_tasks

AllLoadsUnchanged == OtherLoadsUnchanged({})

(***************************************************************************)
(* C1: after every operation, every task of the store has assigned_to set  *)
(* if and only if its status is in_progress or testing.                    *)
(***************************************************************************)
C1_AssignedIffInProgressOrTesting ==
  \A i \in TaskIndexes :
    (tasks_store[i].assigned_to # None)
      <=> (tasks_store[i].status \in {"in_progress", "testing"})

\* C1 as amended: after every operation, every task of the store has
\* assigned_to set if and only if its status is in_progress, completed,
\* testing or approved; it is unset exactly for the pending tasks.
C1_AssignedIffNotPending ==
  \A i \in TaskIndexes :
    (tasks_store[i].assigned_to # None)
      <=> (tasks_store[i].status \in {"in_progress", "completed", "testing", "approved"})

\* One task was approved and keeps its assignee while another was rejected
\* after completion and is pending again.
C1_Witness ==
  \E i, j \in TaskIndexes :
    /\ tasks_store[i].status = "approved"
    /\ tasks_store[i].assigned_to # None
    /\ tasks_store[j].status = "pending"
    /\ tasks_store[j].comments > 0
    /\ tasks_store[j].assigned_to = None

(***************************************************************************)
(* C2: in every reachable state, for every worker of role engineer or      *)
(* tester, current_tasks equals the number of tasks of the store whose     *)
(* assigned_to is that worker.                                             *)
(***************************************************************************)
C2_CountersMatchAssignments ==
  \A a \in Workers :
    agent_loads[a].current_tasks = AssignedCount(tasks_store, a)

(***************************************************************************)
(* C3: assign_task is permitted only from status pending; called on an     *)
(* existing task whose status is in_progress, completed, testing or        *)
(* approved it changes neither that task's status, nor its assigned_to,    *)
(* nor any worker's current_tasks.                                         *)
(***************************************************************************)
C3_AssignOnlyFromPending ==
  [][\A task_id \in TaskIds, agent_id \in AgentArgs :
       (/\ HasTask(tasks_store, task_id)
        /\ tasks_store[IndexOf(tasks_store, task_id)].status
             \in {"in_progress", "completed", "testing", "approved"}
        /\ api_assign_task(task_id, agent_id))
       => LET i == IndexOf(tasks_store, task_id)
          IN  /\ tasks_store'[i].status = tasks_store[i].status
              /\ tasks_store'[i].assigned_to = tasks_store[i].assigned_to
              /\ AllLoadsUnchanged]_vars

(***************************************************************************)
(* C4: approved is a terminal status; once a task's status is approved no  *)
(* operation of the manager, an engineer, a tester or the rebalancer ever  *)
(* changes its status again.                                               *)
(***************************************************************************)
C4_ApprovedIsTerminal ==
  [][\A i \in TaskIndexes :
       tasks_store[i].status = "approved" => tasks_store'[i].status = "approved"]_vars

(***************************************************************************)
(* C5: every successful assign_task, with an explicit agent_id or by       *)
(* auto-pick, sets the task's assigned_to to a worker of role engineer,    *)
(* increments that one engineer's current_tasks by exactly 1 and leaves    *)
(* every other worker's current_tasks unchanged.                           *)
(***************************************************************************)
C5_AssignIncrementsOneEngineer ==
  [][\A task_id \in TaskIds, agent_id \in AgentArgs :
       (/\ AssignResponse(tasks_store, agent_loads, task_id, agent_id) = <<200, "assigned">>
        /\ api_assign_task(task_id, agent_id))
       => LET i == IndexOf(tasks_store, task_id)
              w == tasks_store'[i].assigned_to
          IN  /\ w \in EngineerIds
              /\ agent_loads'[w].current_tasks = agent_loads[w].current_tasks + 1
              /\ OtherLoadsUnchanged({w})]_vars

(***************************************************************************)
(* C6: review_task with approve=false on a task whose status is completed  *)
(* or testing sets its status to pending, clears assigned_to, decrements   *)
(* by exactly 1 the current_tasks of the worker that was assigned at the   *)
(* moment of the call, and leaves every other worker's current_tasks       *)
(* unchanged.                                                              *)
(***************************************************************************)
C6_RejectReleasesTheAssignee ==
  [][\/ UNCHANGED vars
     \/ \A task_id \in TaskIds, comment \in BOOLEAN :
          (/\ HasTask(tasks_store, task_id)
           /\ tasks_store[IndexOf(tasks_store, task_id)].status \in {"completed", "testing"}
           /\ api_review_task(task_id, FALSE, comment))
          => LET i == IndexOf(tasks_store, task_id)
                 w == tasks_store[i].assigned_to
             IN  /\ tasks_store'[i].status = "pending"
                 /\ tasks_store'[i].assigned_to = None
                 /\ w \in DOMAIN agent_loads
                 /\ agent_loads'[w].current_tasks = agent_loads[w].current_tasks - 1
                 /\ OtherLoadsUnchanged({w})]_vars

\* A task was rejected out of testing: it is pending again, unassigned, and
\* still carries the failed result its tester submitted.
C6_Witness ==
  \E i \in TaskIndexes :
    /\ tasks_store[i].status = "pending"
    /\ tasks_store[i].assigned_to = None
    /\ tasks_store[i].test_results.status = "failed"
    /\ agent_loads[tasks_store[i].test_results.tester].current_tasks = 0

(***************************************************************************)
(* C7: review_task with approve=true on a task whose status is testing     *)
(* sets its status to approved and decrements the current_tasks of the     *)
(* tester currently assigned to it by exactly 1; on a task whose status is *)
(* completed it sets the status to approved and changes no load counter.   *)
(***************************************************************************)
C7_ApproveReleasesTheTester ==
  [][\A task_id \in TaskIds, comment \in BOOLEAN :
       (/\ HasTask(tasks_store, task_id)
        /\ tasks_store[IndexOf(tasks_store, task_id)].status \in {"completed", "testing"}
        /\ api_review_task(task_id, TRUE, comment))
       => LET i == IndexOf(tasks_store, task_id)
              w == tasks_store[i].assigned_to
          IN  /\ tasks_store'[i].status = "approved"
              /\ IF tasks_store[i].status = "testing"
                 THEN /\ w \in DOMAIN agent_loads
                      /\ agent_loads'[w].current_tasks = agent_loads[w].current_tasks - 1
                      /\ OtherLoadsUnchanged({w})
                 ELSE AllLoadsUnchanged]_vars

(***************************************************************************)
(* C8: when assign_task is called without agent_id, the chosen worker is   *)
(* of role engineer and has the minimum load percentage (current_tasks /   *)
(* max_capacity) among all engineers of the registry; among engineers tied *)
(* for the minimum, the first in registry insertion order is chosen.       *)
(***************************************************************************)
RegistryPosition(agent_id) ==
  CHOOSE k \in 1..Len(AgentOrder) : AgentOrder[k] = agent_id

C8_AutoPickFirstLeastLoadedEngineer ==
  [][\/ UNCHANGED vars
     \/ \A task_id \in TaskIds :
          (HasTask(tasks_store, task_id) /\ api_assign_task(task_id, None))
          => LET w == tasks_store'[IndexOf(tasks_store, task_id)].assigned_to
             IN  /\ w \in EngineerIds
                 /\ \A e \in EngineerIds :
                      ~PctLess(load_percentage(agent_loads[e]), load_percentage(agent_loads[w]))
                 /\ \A e \in EngineerIds :
                      RegistryPosition(e) < RegistryPosition(w)
                        => PctLess(load_percentage(agent_loads[w]),
                                   load_percentage(agent_loads[e]))]_vars

\* Auto-pick passed over Engineer1 and Engineer2 (both loaded) and took
\* Engineer3: the task is in progress with no comment, so no rebalance pass
\* moved it there.
C8_Witness ==
  \E i \in TaskIndexes :
    /\ tasks_store[i].status = "in_progress"
    /\ tasks_store[i].assigned_to = "Engineer3"
    /\ tasks_store[i].comments = 0
    /\ agent_loads["Engineer1"].current_tasks > 0
    /\ agent_loads["Engineer2"].current_tasks > 0
    /\ agent_loads["Engineer3"].current_tasks = 1

(***************************************************************************)
(* C9: test_task by tester X succeeds only if the task's status is         *)
(* completed and X's available capacity (max_capacity - current_tasks) is  *)
(* greater than 0; on success the status becomes testing, assigned_to      *)
(* becomes X and X's current_tasks increases by exactly 1, so test_task    *)
(* never raises a tester's current_tasks above its max_capacity.           *)
(***************************************************************************)
C9_TestTaskClaimsWithinCapacity ==
  [][\/ UNCHANGED vars
     \/ \A name \in Testers, task_id \in TaskIds :
          api_test_task(name, task_id)
          => IF /\ HasTask(tasks_store, task_id)
                /\ tasks_store[IndexOf(tasks_store, task_id)].status = "completed"
                /\ agent_loads[name].max_capacity - agent_loads[name].current_tasks > 0
             THEN LET i == IndexOf(tasks_store, task_id)
                  IN  /\ TestTaskCheck(tasks_store, agent_loads, name, task_id)[1] = 200
                      /\ tasks_store'[i].status = "testing"
                      /\ tasks_store'[i].assigned_to = name
                      /\ agent_loads'[name].current_tasks = agent_loads[name].current_tasks + 1
                      /\ agent_loads'[name].current_tasks <= agent_loads'[name].max_capacity
             ELSE /\ TestTaskCheck(tasks_store, agent_loads, name, task_id)[1] # 200
                  /\ UNCHANGED vars]_vars

\* A tester holds a claimed task and is at capacity while another task is
\* completed and waits: a further test_task by that tester must be refused.
C9_Witness ==
  \E i, j \in TaskIndexes :
    /\ tasks_store[i].status = "testing"
    /\ tasks_store[i].assigned_to \in Testers
    /\ agent_loads[tasks_store[i].assigned_to].current_tasks
         = agent_loads[tasks_store[i].assigned_to].max_capacity
    /\ tasks_store[j].status = "completed"

(***************************************************************************)
(* C10: submit_test_results by the assigned tester on a task in testing    *)
(* attaches a test_results record whose status is "passed" when passed is  *)
(* true and "failed" otherwise, and leaves the task's status (testing),    *)
(* its assigned_to and every load counter unchanged; only review_task can  *)
(* move a task out of testing to approved or pending.                      *)
(***************************************************************************)
C10_SubmitKeepsTaskInTesting ==
  [][/\ \A name \in Testers, task_id \in TaskIds, passed \in BOOLEAN :
          (/\ HasTask(tasks_store, task_id)
           /\ tasks_store[IndexOf(tasks_store, task_id)].assigned_to = name
           /\ tasks_store[IndexOf(tasks_store, task_id)].status = "testing"
           /\ api_submit_test_results(name, task_id, passed))
          => LET i == IndexOf(tasks_store, task_id)
             IN  /\ tasks_store'[i].test_results.status
                      = (IF passed THEN "passed" ELSE "failed")
                 /\ tasks_store'[i].comments = tasks_store[i].comments + 1
                 /\ tasks_store'[i].status = "testing"
                 /\ tasks_store'[i].assigned_to = name
                 /\ AllLoadsUnchanged
     /\ \A i \in TaskIndexes :
          (/\ tasks_store[i].status = "testing"
           /\ tasks_store'[i].status \in {"approved", "pending"})
          => \E approve \in BOOLEAN, comment \in BOOLEAN :
               api_review_task(tasks_store[i].id, approve, comment)]_vars

\* A task is still in testing, with its tester, after a passed verdict was
\* submitted for it.
C10_Witness ==
  \E i \in TaskIndexes :
    /\ tasks_store[i].status = "testing"
    /\ tasks_store[i].test_results.status = "passed"
    /\ tasks_store[i].assigned_to = tasks_store[i].test_results.tester

(***************************************************************************)
(* C11: in every reachable state, every worker with max_capacity > 0 has   *)
(* load_percentage within [0, 100], that is 0 <= current_tasks <=          *)
(* max_capacity, and every worker with max_capacity = 0 has                *)
(* load_percentage 0.                                                      *)
(***************************************************************************)
C11_LoadPercentageWithinBounds ==
  \A a \in DOMAIN agent_loads :
    LET load == agent_loads[a]
        pct  == load_percentage(load)
    IN  IF load.max_capacity > 0
        THEN /\ 0 <= load.current_tasks
             /\ load.current_tasks <= load.max_capacity
             /\ ~PctBelow(pct, 0)
             /\ ~PctAbove(pct, 100)
        ELSE pct[1] = 0

(***************************************************************************)
(* C12: assign_task naming an agent_id that is not in the Load Registry    *)
(* reports a not-found error and leaves the task's status and assigned_to  *)
(* and every load counter unchanged.                                       *)
(***************************************************************************)
C12_UnknownAgentLeavesStateUnchanged ==
  [][\A task_id \in TaskIds, agent_id \in AgentArgs \ {None} :
       (/\ HasTask(tasks_store, task_id)
        /\ ~InRegistry(agent_loads, agent_id)
        /\ api_assign_task(task_id, agent_id))
       => LET i == IndexOf(tasks_store, task_id)
          IN  /\ AssignResponse(tasks_store, agent_loads, task_id, agent_id)[1] = 404
              /\ tasks_store'[i].status = tasks_store[i].status
              /\ tasks_store'[i].assigned_to = tasks_store[i].assigned_to
              /\ AllLoadsUnchanged]_vars

(***************************************************************************)
(* C13: for work_on_task, complete_task, test_task, submit_test_results    *)
(* and review_task, whenever the call fails (unknown task id, caller is    *)
(* not the assignee, task status not permitted, or tester without          *)
(* capacity), the Task Store and the Load Registry are exactly as they     *)
(* were before the call.                                                   *)
(***************************************************************************)
\* The failure conditions, as the claim lists them.
TaskOf(task_id) == tasks_store[IndexOf(tasks_store, task_id)]

EngineerCallFails(name, task_id) ==
  \/ ~HasTask(tasks_store, task_id)
  \/ TaskOf(task_id).assigned_to # name
  \/ TaskOf(task_id).status # "in_progress"

TestTaskFails(name, task_id) ==
  \/ ~HasTask(tasks_store, task_id)
  \/ TaskOf(task_id).status # "completed"
  \/ agent_loads[name].max_capacity - agent_loads[name].current_tasks <= 0

SubmitFails(name, task_id) ==
  \/ ~HasTask(tasks_store, task_id)
  \/ TaskOf(task_id).assigned_to # name
  \/ TaskOf(task_id).status # "testing"

ReviewFails(task_id) ==
  \/ ~HasTask(tasks_store, task_id)
  \/ TaskOf(task_id).status \notin {"completed", "testing"}

C13_FailedCallChangesNothing ==
  [][\/ UNCHANGED vars
     \/ \A task_id \in TaskIds :
       /\ \A e \in Engineers :
            /\ (EngineerCallFails(e, task_id) /\ api_work_on_task(e, task_id))
                 => UNCHANGED vars
            /\ (EngineerCallFails(e, task_id) /\ api_complete_task(e, task_id))
                 => UNCHANGED vars
       /\ \A x \in Testers :
            /\ (TestTaskFails(x, task_id) /\ api_test_task(x, task_id))
                 => UNCHANGED vars
            /\ \A passed \in BOOLEAN :
                 (SubmitFails(x, task_id) /\ api_submit_test_results(x, task_id, passed))
                   => UNCHANGED vars
       /\ \A approve \in BOOLEAN, comment \in BOOLEAN :
            (ReviewFails(task_id) /\ api_review_task(task_id, approve, comment))
              => UNCHANGED vars]_vars

\* A tested task was approved and still names its tester, who is at capacity,
\* while an id of the id space is unknown to the store: every one of the five
\* calls fails on one of the two ids.
C13_Witness ==
  /\ Len(tasks_store) < MaxTasks
  /\ \E i \in TaskIndexes :
       /\ tasks_store[i].status = "approved"
       /\ tasks_store[i].assigned_to \in Testers
       /\ tasks_store[i].test_results.status # None
       /\ agent_loads[tasks_store[i].assigned_to].current_tasks
            >= agent_loads[tasks_store[i].assigned_to].max_capacity

(***************************************************************************)
(* C14: work_on_task and complete_task called by engineer E succeed        *)
(* exactly when the task exists, its assigned_to is E and its status is    *)
(* in_progress; otherwise the error kind is not_found if the task id is    *)
(* unknown, else forbidden if assigned_to is not E (whatever the status),  *)
(* else invalid_state.                                                     *)
(***************************************************************************)
\* The status code the claim prescribes for a call by engineer `name`.
EngineerCodeClaimed(name, task_id) ==
  IF ~HasTask(tasks_store, task_id) THEN 404
  ELSE IF TaskOf(task_id).assigned_to # name THEN 403
  ELSE IF TaskOf(task_id).status # "in_progress" THEN 400
  ELSE 200

C14_EngineerGuardsInOrder ==
  /\ [](\A e \in Engineers, task_id \in TaskIds :
          EngineerCheck(tasks_store, e, task_id)[1] = EngineerCodeClaimed(e, task_id))
  /\ [][\/ UNCHANGED vars
        \/ \A e \in Engineers, task_id \in TaskIds :
             IF EngineerCodeClaimed(e, task_id) = 200
             THEN LET i == IndexOf(tasks_store, task_id)
                  IN  /\ api_work_on_task(e, task_id)
                           => /\ tasks_store'[i].comments = tasks_store[i].comments + 1
                              /\ tasks_store'[i].status = "in_progress"
                      /\ api_complete_task(e, task_id)
                           => tasks_store'[i].status = "completed"
             ELSE /\ ~api_work_on_task(e, task_id)
                  /\ ~api_complete_task(e, task_id)]_vars

\* An engineer completed its task, so a further call by that engineer is an
\* invalid_state and a call by another engineer is forbidden although the
\* status is wrong too; one id of the id space is still unknown.
C14_Witness ==
  /\ Len(tasks_store) < MaxTasks
  /\ \E i \in TaskIndexes :
       /\ tasks_store[i].status = "completed"
       /\ tasks_store[i].assigned_to \in Engineers

(***************************************************************************)
(* The rebalance pass on its own: rebalance_workload applied to a store    *)
(* and a registry of a larger configuration than the one of Spec.          *)
(*                                                                         *)
(* The engineers run with ENGINEER_MAX_CAPACITY = RebalanceCapacity.  A    *)
(* task of the store is pending, or with an engineer (in progress or       *)
(* completed), or with Tester1 (claimed for testing, or assigned to it by  *)
(* an explicit assign_task).  `dependencies` is a field of Task that no    *)
(* handler writes and that the pass reads at line 182: the store also      *)
(* holds tasks that carry a dependency, as a caller filling tasks_store    *)
(* with Task objects produces them.  Engineer1's counter may be one above  *)
(* its assignments, the drift that test_task leaves behind.                *)
(***************************************************************************)
MaxRebalanceTasks == 5
RebalanceCapacity == 3

TaskShapes ==
  { [status |-> "pending",     assigned_to |-> None,        dependencies |-> <<>>],
    [status |-> "in_progress", assigned_to |-> "Engineer1", dependencies |-> <<>>],
    [status |-> "in_progress", assigned_to |-> "Engineer1", dependencies |-> <<1>>],
    [status |-> "in_progress", assigned_to |-> "Engineer2", dependencies |-> <<>>],
    [status |-> "completed",   assigned_to |-> "Engineer1", dependencies |-> <<>>],
    [status |-> "in_progress", assigned_to |-> "Tester1",   dependencies |-> <<>>],
    [status |-> "in_progress", assigned_to |-> Stranger,    dependencies |-> <<>>],
    [status |-> "testing",     assigned_to |-> "Tester1",   dependencies |-> <<>>] }

ShapedTask(id, shape) ==
  [Task(id, "feature", "medium") EXCEPT !.status = shape.status,
                                        !.assigned_to = shape.assigned_to,
                                        !.dependencies = shape.dependencies]

RebalanceLoads(store, drift) ==
  [a \in AgentIds |->
     IF a = "ProjectManager" THEN AgentLoad(a, "manager", MANAGER_MAX_CAPACITY)
     ELSE IF a \in Engineers
          THEN [AgentLoad(a, "engineer", RebalanceCapacity)
                  EXCEPT !.current_tasks =
                    Cardinality({i \in 1..Len(store) : store[i].assigned_to = a})
                      + (IF a = "Engineer1" THEN drift ELSE 0)]
     ELSE [AgentLoad(a, "tester", TESTER_MAX_CAPACITY)
             EXCEPT !.current_tasks =
               Cardinality({i \in 1..Len(store) : store[i].assigned_to = a})]]

InitRebalance ==
  \E n \in 1..MaxRebalanceTasks, drift \in {0, 1} :
    \E shapes \in [1..n -> TaskShapes] :
      /\ tasks_store = [i \in 1..n |-> ShapedTask(i, shapes[i])]
      /\ agent_loads = RebalanceLoads(tasks_store, drift)
      /\ ThreadsIdle

NextRebalance == rebalance_workload

SpecRebalance == InitRebalance /\ [][NextRebalance]_vars

\* The registry as the pass sees it after its resync (lines 154-161).
SyncedNow == ResyncedLoads(tasks_store, agent_loads)

OverAfterResync(agent_id) == PctAbove(load_percentage(SyncedNow[agent_id]), 80)

(***************************************************************************)
(* C15: immediately after any rebalance pass, every worker's current_tasks *)
(* equals the number of tasks of the store whose assigned_to is that       *)
(* worker, the pass's own reassignments included.                          *)
(***************************************************************************)
C15_PassLeavesCountersExact ==
  [][rebalance_workload
       => \A a \in DOMAIN agent_loads :
            agent_loads'[a].current_tasks = AssignedCount(tasks_store', a)]_vars

\* A pass moved a task to Engineer3 (no task starts there) and Engineer3's
\* counter shows what it holds.
C15_Witness ==
  /\ AssignedCount(tasks_store, "Engineer3") >= 1
  /\ agent_loads["Engineer3"].current_tasks = AssignedCount(tasks_store, "Engineer3")
  /\ \E i \in TaskIndexes :
       tasks_store[i].assigned_to = "Engineer3" /\ tasks_store[i].comments = 1

(***************************************************************************)
(* C16: a rebalance pass changes assigned_to only of tasks that, at the    *)
(* moment of the move, have status in_progress, an empty dependency set,   *)
(* and are assigned to an engineer whose load% exceeded 80 after the       *)
(* resync; it never changes the status of any task and never moves a task  *)
(* held by a tester or the manager.                                        *)
(***************************************************************************)
C16_PassMovesOnlyMovableTasks ==
  [][rebalance_workload
       => /\ Len(tasks_store') = Len(tasks_store)
          /\ \A i \in TaskIndexes :
               /\ tasks_store'[i].status = tasks_store[i].status
               /\ tasks_store'[i].assigned_to # tasks_store[i].assigned_to
                    => /\ tasks_store[i].status = "in_progress"
                       /\ tasks_store[i].dependencies = <<>>
                       /\ tasks_store[i].assigned_to \in EngineerIds
                       /\ OverAfterResync(tasks_store[i].assigned_to)]_vars

\* A pass moved a task away while a completed task and a task with a
\* dependency stayed with Engineer1 and Tester1 kept an in-progress task.
C16_Witness ==
  \E i, j, k, l \in TaskIndexes :
    /\ tasks_store[i].comments = 1
    /\ tasks_store[i].assigned_to \in {"Engineer2", "Engineer3"}
    /\ tasks_store[j].status = "completed" /\ tasks_store[j].assigned_to = "Engineer1"
    /\ tasks_store[k].dependencies # <<>> /\ tasks_store[k].assigned_to = "Engineer1"
    /\ tasks_store[l].status = "in_progress" /\ tasks_store[l].assigned_to = "Tester1"

(***************************************************************************)
(* C17: when a rebalance pass ends, for every engineer that was overloaded *)
(* (load% > 80) after the resync, at least one of these holds: its load%   *)
(* is now <= 80, or it holds no in_progress task with an empty dependency  *)
(* set, or no engineer has load% < 50.                                     *)
(***************************************************************************)
C17_PassExhaustsOverloadOrTargets ==
  [][rebalance_workload
       => \A e \in EngineerIds :
            OverAfterResync(e)
              => \/ ~PctAbove(load_percentage(agent_loads'[e]), 80)
                 \/ ~\E i \in 1..Len(tasks_store') : Movable(tasks_store'[i], e)
                 \/ \A u \in EngineerIds :
                      ~PctBelow(load_percentage(agent_loads'[u]), 50)]_vars

(***************************************************************************)
(* C18: from any state in which no engineer's load% exceeds 80 after the   *)
(* resync, a rebalance pass reassigns no task; so running the rebalancer   *)
(* twice in a row from such a state leaves every task's assigned_to and    *)
(* comments unchanged.                                                     *)
(***************************************************************************)
C18_PassIdempotentBelowThreshold ==
  [][(rebalance_workload /\ \A e \in EngineerIds : ~OverAfterResync(e))
       => /\ tasks_store' = tasks_store
          /\ Rebalanced(tasks_store', agent_loads').store = tasks_store]_vars

\* A pass has moved a task and left no engineer above 80 by counters that
\* match the store, while Engineer1's tasks are unevenly spread: the next
\* pass starts from the state the claim is about.
C18_Witness ==
  /\ \E i \in TaskIndexes : tasks_store[i].comments = 1
  /\ \A e \in EngineerIds :
       /\ agent_loads[e].current_tasks = AssignedCount(tasks_store, e)
       /\ ~PctAbove(load_percentage(agent_loads[e]), 80)
  /\ AssignedCount(tasks_store, "Engineer1") = 2
  /\ AssignedCount(tasks_store, "Engineer3") = 0

(***************************************************************************)
(* The handlers as the threads of run_system execute them.  Each agent's   *)
(* API server and the periodic rebalancer run in a thread of their own     *)
(* (main.py 242-282) and share tasks_store and agent_loads without a lock, *)
(* so a handler of one thread is interrupted between any two statements by *)
(* the handlers of the others.  A handler is cut where it passes from      *)
(* reading to writing and from the store to the registry; a thread makes   *)
(* one call.                                                               *)
(*                                                                         *)
(* The threads start from a store of up to MaxTasks tasks in the startup   *)
(* configuration of Spec, with counters that match the assignments.        *)
(***************************************************************************)
StartShapes ==
  { [status |-> "pending",     assigned_to |-> None,        dependencies |-> <<>>],
    [status |-> "in_progress", assigned_to |-> "Engineer1", dependencies |-> <<>>],
    [status |-> "completed",   assigned_to |-> "Engineer1", dependencies |-> <<>>],
    [status |-> "completed",   assigned_to |-> "Engineer2", dependencies |-> <<>>],
    [status |-> "testing",     assigned_to |-> "Tester1",   dependencies |-> <<>>] }

StartLoads(store) ==
  [a \in AgentIds |->
     [InitialLoads[a] EXCEPT !.current_tasks =
        Cardinality({i \in 1..Len(store) : store[i].assigned_to = a})]]

\* The threads of `running` are about to make their call, the others make none.
ThreadsStarted(running) ==
  /\ pc = [t \in Threads |-> IF t \in running THEN "idle" ELSE "off"]
  /\ frame = [t \in Threads |-> NoFrame]
  /\ start = [store |-> tasks_store, loads |-> agent_loads]

StartStore ==
  \E n \in 1..MaxTasks :
    \E shapes \in [1..n -> StartShapes] :
      /\ tasks_store = [i \in 1..n |-> ShapedTask(i, shapes[i])]
      /\ agent_loads = StartLoads(tasks_store)

\* The thread enters a handler with the request and the locals of `fr`.
Enter(thread, label, fr) ==
  /\ pc' = [pc EXCEPT ![thread] = label]
  /\ frame' = [frame EXCEPT ![thread] = fr]

Goto(thread, label) == pc' = [pc EXCEPT ![thread] = label]

Return(thread, result) ==
  /\ pc' = [pc EXCEPT ![thread] = "done"]
  /\ frame' = [frame EXCEPT ![thread].result = result]

FrameTask(thread) == IndexOf(tasks_store, frame[thread].task_id)

(***************************************************************************)
(* TesterAgent.api_test_task in three steps.                               *)
(***************************************************************************)
\* Lines 425-445: the checks, on what the store and the registry hold now.
test_task_check(name, task_id) ==
  /\ pc[name] = "idle"
  /\ LET check == TestTaskCheck(tasks_store, agent_loads, name, task_id)
     IN  Enter(name, IF check[1] = 200 THEN "test_claim" ELSE "done",
               [NoFrame EXCEPT !.op = "test_task", !.task_id = task_id,
                               !.result = IF check[1] = 200 THEN 0 ELSE check[1]])
  /\ UNCHANGED <<tasks_store, agent_loads, start>>

\* Lines 448-456: the task object fetched at line 428 is written.
test_task_claim(name) ==
  /\ pc[name] = "test_claim"
  /\ tasks_store' = [tasks_store EXCEPT ![FrameTask(name)] = ClaimedTask(@, name)]
  /\ Goto(name, "test_count")
  /\ UNCHANGED <<agent_loads, frame, start>>

\* Lines 457-462.
test_task_count(name) ==
  /\ pc[name] = "test_count"
  /\ agent_loads' = ClaimedLoads(agent_loads, name)
  /\ Return(name, 200)
  /\ UNCHANGED <<tasks_store, start>>

InitTesters == StartStore /\ ThreadsStarted(Testers)

NextTesters ==
  \/ \E x \in Testers, id \in TaskIds : test_task_check(x, id)
  \/ \E x \in Testers : test_task_claim(x)
  \/ \E x \in Testers : test_task_count(x)

SpecTesters == InitTesters /\ [][NextTesters]_vars

(***************************************************************************)
(* C19: concurrent operations on the same task serialize: when two testers *)
(* call test_task concurrently on one completed task, exactly one call     *)
(* succeeds, the task ends assigned to that tester, and only that tester's *)
(* current_tasks is incremented.                                           *)
(***************************************************************************)
\* Both testers made their call on the task `task_id`, which was completed
\* when the threads started, and both had capacity for it.
BothTestersCalled(task_id) ==
  /\ \A x \in Testers : pc[x] = "done" /\ frame[x].task_id = task_id
  /\ HasTask(start.store, task_id)
  /\ start.store[IndexOf(start.store, task_id)].status = "completed"
  /\ \A x \in Testers : start.loads[x].max_capacity - start.loads[x].current_tasks > 0

C19_TestersSerializeOnOneTask ==
  \A task_id \in TaskIds :
    BothTestersCalled(task_id)
      => \E winner \in Testers :
           /\ frame[winner].result = 200
           /\ tasks_store[IndexOf(tasks_store, task_id)].assigned_to = winner
           /\ agent_loads[winner].current_tasks = start.loads[winner].current_tasks + 1
           /\ \A x \in Testers \ {winner} :
                /\ frame[x].result # 200
                /\ agent_loads[x].current_tasks = start.loads[x].current_tasks

(***************************************************************************)
(* ManagerAgent.api_assign_task in three steps.                            *)
(***************************************************************************)
RaceAgentArgs == {None, "Engineer2"}

\* Lines 372-395: the 404 check and the choice of the agent, on the counters
\* the registry holds now.
assign_task_choose(task_id, agent_id) ==
  /\ pc["ProjectManager"] = "idle"
  /\ LET resp == AssignResponse(tasks_store, agent_loads, task_id, agent_id)
         fr   == [NoFrame EXCEPT !.op = "assign_task", !.task_id = task_id,
                                 !.agent_id = agent_id]
     IN  IF resp[2] \in {"task_not_found", "no_suitable_engineers"}
         THEN Enter("ProjectManager", "done", [fr EXCEPT !.result = resp[1]])
         ELSE Enter("ProjectManager", "assign_write",
                    [fr EXCEPT !.chosen = ChosenAgent(agent_loads, agent_id)])
  /\ UNCHANGED <<tasks_store, agent_loads, start>>

\* Lines 398-402.
assign_task_write ==
  /\ pc["ProjectManager"] = "assign_write"
  /\ tasks_store' = [tasks_store EXCEPT ![FrameTask("ProjectManager")] =
                       AssignedTask(@, frame["ProjectManager"].chosen)]
  /\ Goto("ProjectManager", "assign_count")
  /\ UNCHANGED <<agent_loads, frame, start>>

\* Lines 403-408.
assign_task_count ==
  /\ pc["ProjectManager"] = "assign_count"
  /\ IF InRegistry(agent_loads, frame["ProjectManager"].chosen)
     THEN /\ agent_loads' = AssignedLoads(agent_loads, frame["ProjectManager"].chosen)
          /\ Return("ProjectManager", 200)
     ELSE /\ UNCHANGED agent_loads
          /\ Return("ProjectManager", 500)
  /\ UNCHANGED <<tasks_store, start>>

(***************************************************************************)
(* ManagerAgent.api_review_task in three steps (no comment in the request).*)
(***************************************************************************)
\* Lines 453-463.
review_task_check(task_id, approve) ==
  /\ pc["ProjectManager"] = "idle"
  /\ LET resp == ReviewResponse(tasks_store, agent_loads, task_id, approve)
         fr   == [NoFrame EXCEPT !.op = "review_task", !.task_id = task_id,
                                 !.approve = approve]
     IN  IF resp[2] \in {"task_not_found", "not_ready_for_review"}
         THEN Enter("ProjectManager", "done", [fr EXCEPT !.result = resp[1]])
         ELSE Enter("ProjectManager", "review_mark", fr)
  /\ UNCHANGED <<tasks_store, agent_loads, start>>

\* Lines 466-477.
review_task_mark ==
  /\ pc["ProjectManager"] = "review_mark"
  /\ tasks_store' = [tasks_store EXCEPT ![FrameTask("ProjectManager")] =
                       MarkedTask(@, frame["ProjectManager"].approve, FALSE)]
  /\ Goto("ProjectManager", "review_release")
  /\ UNCHANGED <<agent_loads, frame, start>>

\* Lines 480-498, on the task as the store holds it now.
review_task_release ==
  /\ pc["ProjectManager"] = "review_release"
  /\ LET i    == FrameTask("ProjectManager")
         task == tasks_store[i]
     IN  IF frame["ProjectManager"].approve
         THEN /\ agent_loads' = ApprovedLoads(agent_loads, task)
              /\ UNCHANGED tasks_store
              /\ Return("ProjectManager", 200)
         ELSE IF task.assigned_to # None /\ ~InRegistry(agent_loads, task.assigned_to)
         THEN /\ tasks_store' = [tasks_store EXCEPT ![i].status = "pending"]
              /\ UNCHANGED agent_loads
              /\ Return("ProjectManager", 500)
         ELSE /\ tasks_store' = [tasks_store EXCEPT ![i] = RejectedTask(task)]
              /\ agent_loads' = RejectedLoads(agent_loads, task)
              /\ Return("ProjectManager", 200)
  /\ UNCHANGED start

(***************************************************************************)
(* WorkflowCoordinator.rebalance_workload in steps: the counters are       *)
(* zeroed, then recounted one stored task at a time, then the tasks are    *)
(* moved.                                                                  *)
(***************************************************************************)
\* Lines 155-156.
rebalance_zero ==
  /\ pc["Rebalancer"] = "idle"
  /\ agent_loads' = ZeroedLoads(agent_loads)
  /\ Enter("Rebalancer", "rebalance_count",
           [NoFrame EXCEPT !.op = "rebalance_workload", !.cursor = 1,
                           !.used = Len(tasks_store)])
  /\ UNCHANGED <<tasks_store, start>>

\* Lines 159-161: the task the scan stands at.
rebalance_count ==
  /\ pc["Rebalancer"] = "rebalance_count"
  /\ frame["Rebalancer"].used = Len(tasks_store)
  /\ frame["Rebalancer"].cursor <= Len(tasks_store)
  /\ LET task == tasks_store[frame["Rebalancer"].cursor]
     IN  agent_loads' =
           IF task.assigned_to # None /\ InRegistry(agent_loads, task.assigned_to)
           THEN AddLoad(agent_loads, task.assigned_to, 1)
           ELSE agent_loads
  /\ frame' = [frame EXCEPT !["Rebalancer"].cursor = @ + 1]
  /\ UNCHANGED <<tasks_store, pc, start>>

\* Lines 164-197, once the scan has passed the last task.
rebalance_move ==
  /\ pc["Rebalancer"] = "rebalance_count"
  /\ frame["Rebalancer"].used = Len(tasks_store)
  /\ frame["Rebalancer"].cursor > Len(tasks_store)
  /\ LET st == OverLoop(PassState(tasks_store, agent_loads),
                        overloaded_engineers(agent_loads),
                        underloaded_engineers(agent_loads), 1)
     IN  /\ tasks_store' = st.store
         /\ agent_loads' = st.loads
  /\ Return("Rebalancer", 200)
  /\ UNCHANGED start

\* Line 159 while another thread has added a key: the iterator of
\* tasks_store.items() finds the size of the dictionary changed and raises
\* RuntimeError.  Neither rebalance_workload nor rebalance_periodically
\* (main.py 139-149) nor run_rebalance_task (main.py 278-279) catches it: the
\* rebalancer thread ends, with the counters as the pass has left them.
rebalance_raise ==
  /\ pc["Rebalancer"] = "rebalance_count"
  /\ frame["Rebalancer"].used # Len(tasks_store)
  /\ pc' = [pc EXCEPT !["Rebalancer"] = "raised"]
  /\ frame' = [frame EXCEPT !["Rebalancer"].result = 500]
  /\ UNCHANGED <<tasks_store, agent_loads, start>>

\* main.py 139-141: the loop goes round and awaits the next interval.
rebalance_sleep ==
  /\ pc["Rebalancer"] = "done"
  /\ Enter("Rebalancer", "idle", NoFrame)
  /\ UNCHANGED <<tasks_store, agent_loads, start>>

Callers == Threads \ {"Rebalancer", "Main"}

\* The rebalancer runs beside one caller: the manager or Tester1.
InitRace ==
  /\ StartStore
  /\ \E caller \in {"ProjectManager", "Tester1"} :
       ThreadsStarted({caller, "Rebalancer"})

NextRace ==
  \/ rebalance_zero
  \/ rebalance_count
  \/ rebalance_move
  \/ \E id \in TaskIds, a \in RaceAgentArgs : assign_task_choose(id, a)
  \/ assign_task_write
  \/ assign_task_count
  \/ \E id \in TaskIds, approve \in BOOLEAN : review_task_check(id, approve)
  \/ review_task_mark
  \/ review_task_release
  \/ \E id \in TaskIds : test_task_check("Tester1", id)
  \/ test_task_claim("Tester1")
  \/ test_task_count("Tester1")

SpecRace == InitRace /\ [][NextRace]_vars

(***************************************************************************)
(* What a whole call makes of a store and a registry, for the serial       *)
(* orders a concurrent run is compared with.                               *)
(***************************************************************************)
PassOutcome(st) == Rebalanced(st.store, st.loads)

AssignOutcome(st, task_id, agent_id) ==
  LET resp == AssignResponse(st.store, st.loads, task_id, agent_id)
  IN  IF resp[2] \in {"task_not_found", "no_suitable_engineers"}
      THEN st
      ELSE LET i      == IndexOf(st.store, task_id)
               chosen == ChosenAgent(st.loads, agent_id)
           IN  [store |-> [st.store EXCEPT ![i] = AssignedTask(@, chosen)],
                loads |-> IF resp[2] = "KeyError"
                          THEN st.loads
                          ELSE AssignedLoads(st.loads, chosen)]

ReviewOutcome(st, task_id, approve) ==
  LET resp == ReviewResponse(st.store, st.loads, task_id, approve)
  IN  IF resp[2] \in {"task_not_found", "not_ready_for_review"}
      THEN st
      ELSE LET i      == IndexOf(st.store, task_id)
               marked == MarkedTask(st.store[i], approve, FALSE)
           IN  IF resp[2] = "approved"
               THEN [store |-> [st.store EXCEPT ![i] = marked],
                     loads |-> ApprovedLoads(st.loads, marked)]
               ELSE IF resp[2] = "KeyError"
               THEN [store |-> [st.store EXCEPT ![i] = [marked EXCEPT !.status = "pending"]],
                     loads |-> st.loads]
               ELSE [store |-> [st.store EXCEPT ![i] = RejectedTask(marked)],
                     loads |-> RejectedLoads(st.loads, marked)]

TestOutcome(st, name, task_id) ==
  IF TestTaskCheck(st.store, st.loads, name, task_id)[1] # 200
  THEN st
  ELSE [store |-> [st.store EXCEPT ![IndexOf(st.store, task_id)] = ClaimedTask(@, name)],
        loads |-> ClaimedLoads(st.loads, name)]

\* The call of the thread `caller`, as its frame records the request.
CallOutcome(st, caller) ==
  LET fr == frame[caller]
  IN  IF fr.op = "assign_task" THEN AssignOutcome(st, fr.task_id, fr.agent_id)
      ELSE IF fr.op = "review_task" THEN ReviewOutcome(st, fr.task_id, fr.approve)
      ELSE IF fr.op = "test_task" THEN TestOutcome(st, caller, fr.task_id)
      ELSE st

(***************************************************************************)
(* C20: when the steps of a rebalance pass (zeroing the counters,          *)
(* recounting from the store, moving tasks) interleave with assign_task,   *)
(* test_task or review_task running in another thread, the resulting Task  *)
(* Store and Load Registry equal the result of some serial order of the    *)
(* pass and the operation, and no counter becomes negative.                *)
(***************************************************************************)
C20_PassInterleavingIsSerializable ==
  /\ \A a \in DOMAIN agent_loads : agent_loads[a].current_tasks >= 0
  /\ \A caller \in Callers :
       (pc["Rebalancer"] = "done" /\ pc[caller] = "done")
         => [store |-> tasks_store, loads |-> agent_loads]
              \in {PassOutcome(CallOutcome(start, caller)),
                   CallOutcome(PassOutcome(start), caller)}

(***************************************************************************)
(* C21: every create_task mints an identifier that is not yet a key of the *)
(* store: the store gains exactly one task, pending and unassigned, every  *)
(* task stored before is left unchanged, and no load counter changes.      *)
(***************************************************************************)
C21_CreateMintsFreshId ==
  [][\A task_id \in TaskIds, p \in PriorityInputs, t \in TypeInputs :
       api_create_task(task_id, p, t)
       => /\ ~HasTask(tasks_store, task_id)
          /\ Len(tasks_store') = Len(tasks_store) + 1
          /\ tasks_store'[Len(tasks_store')].id = task_id
          /\ tasks_store'[Len(tasks_store')].status = "pending"
          /\ tasks_store'[Len(tasks_store')].assigned_to = None
          /\ SubSeq(tasks_store', 1, Len(tasks_store)) = tasks_store
          /\ AllLoadsUnchanged]_vars

(***************************************************************************)
(* C22: no operation and no rebalance pass removes a task from the store   *)
(* or changes a task's id: every identifier of the store stays in it, at   *)
(* its place, so the set of identifiers only grows.                        *)
(***************************************************************************)
C22_TaskIdsOnlyGrow ==
  [][\/ UNCHANGED vars
     \/ /\ Len(tasks_store') >= Len(tasks_store)
        /\ \A i \in TaskIndexes : tasks_store'[i].id = tasks_store[i].id]_vars

\* The store is full, a task has been through the whole life cycle, a pass
\* has moved a task, and a later create_task has written a task.
C22_Witness ==
  /\ Len(tasks_store) = MaxTasks
  /\ \E i, j \in TaskIndexes :
       /\ i < j
       /\ tasks_store[i].status \in {"approved", "testing"}
       /\ tasks_store[i].comments > 0
       /\ tasks_store[j].status = "pending"

(***************************************************************************)
(* A ManagerAgent on the registry it is constructed with.  The constructor *)
(* (manager/agent.py 100-110) takes agent_loads as an argument; the        *)
(* coordinator passes the registry of three engineers and two testers,     *)
(* and any other caller of the class may pass a registry with fewer        *)
(* workers.  The registries drawn here: the coordinator's, the same        *)
(* without its engineers, and one with a single engineer.                  *)
(***************************************************************************)
Registry(agents) == [a \in agents |-> InitialLoads[a]]

ManagerRegistries ==
  {Registry(AgentIds), Registry(AgentIds \ Engineers),
   Registry({"ProjectManager", "Engineer3", "Tester1"})}

InitManager ==
  /\ tasks_store = <<>>
  /\ agent_loads \in ManagerRegistries
  /\ ThreadsIdle

\* The two handlers of the manager that write on a store no engineer or
\* tester has worked on yet.
NextManager ==
  \/ \E id \in TaskIds, p \in PriorityInputs, t \in TypeInputs :
       api_create_task(id, p, t)
  \/ \E task_id \in TaskIds, agent_id \in AgentArgs : api_assign_task(task_id, agent_id)

SpecManager == InitManager /\ [][NextManager]_vars

(***************************************************************************)
(* C23: assign_task without agent_id, on a registry that holds no worker   *)
(* of role engineer, reports that no suitable engineer is available and    *)
(* leaves the task's status and assigned_to and every load counter         *)
(* unchanged.                                                              *)
(***************************************************************************)
C23_NoEngineersReportsAndKeepsState ==
  [][\A task_id \in TaskIds :
       (/\ HasTask(tasks_store, task_id)
        /\ \A a \in DOMAIN agent_loads : agent_loads[a].agent_type # "engineer")
       => /\ AssignResponse(tasks_store, agent_loads, task_id, None)
               = <<200, "no_suitable_engineers">>
          /\ api_assign_task(task_id, None)
               => /\ tasks_store' = tasks_store
                  /\ AllLoadsUnchanged]_vars

\* The registry holds no engineer, and the store holds a pending task beside
\* a task that an explicit agent_id has assigned.
C23_Witness ==
  /\ \A a \in DOMAIN agent_loads : agent_loads[a].agent_type # "engineer"
  /\ \E i, j \in TaskIndexes :
       /\ tasks_store[i].status = "pending"
       /\ tasks_store[j].status = "in_progress"

(***************************************************************************)
(* create_task on the strings a CreateTaskRequest can carry (manager/      *)
(* agent.py 28-33): priority is Optional[str], task_type is str.  Beside   *)
(* the values of the two enumerations: a null priority, an empty string,   *)
(* a value of the other enumeration, and a value in capitals (the lookup   *)
(* by value is case-sensitive).                                            *)
(***************************************************************************)
RequestPriorities == TaskPriority \cup {None, "", "urgent", "HIGH", "bug"}

RequestTypes == TaskType \cup {"", "task", "BUG", "high"}

InitCreate ==
  /\ tasks_store = <<>>
  /\ agent_loads = InitialLoads
  /\ ThreadsIdle

NextCreate ==
  \E id \in TaskIds, p \in RequestPriorities, t \in RequestTypes :
    api_create_task(id, p, t)

SpecCreate == InitCreate /\ [][NextCreate]_vars

(***************************************************************************)
(* C24: create_task never fails because of its priority or type string: a  *)
(* priority outside {low, medium, high, critical} yields a task of         *)
(* priority medium, a type outside {feature, bug, improvement,             *)
(* documentation} yields a task of type feature, and a valid value is      *)
(* stored as given.                                                        *)
(***************************************************************************)
C24_MalformedPriorityAndTypeFallBack ==
  /\ [](\A p \in RequestPriorities, t \in RequestTypes :
          \E id \in TaskIds : ENABLED api_create_task(id, p, t))
  /\ [][\A p \in RequestPriorities, t \in RequestTypes, id \in TaskIds :
          api_create_task(id, p, t)
          => LET created == tasks_store'[IndexOf(tasks_store', id)]
             IN  /\ created.priority =
                      (IF p \in {"low", "medium", "high", "critical"}
                       THEN p ELSE "medium")
                 /\ created.task_type =
                      (IF t \in {"feature", "bug", "improvement", "documentation"}
                       THEN t ELSE "feature")]_vars

\* The store holds a task created with valid values other than the defaults
\* and a task with both defaults.
C24_Witness ==
  \E i, j \in TaskIndexes :
    /\ tasks_store[i].priority = "critical"
    /\ tasks_store[i].task_type = "documentation"
    /\ tasks_store[j].priority = "medium"
    /\ tasks_store[j].task_type = "feature"

(***************************************************************************)
(* C25: every reassignment of a rebalance pass targets an engineer whose   *)
(* load% is below 50 immediately before that move, also when several       *)
(* overloaded engineers are relieved in the same pass.                     *)
(***************************************************************************)
C25_MovesTargetUnderloadedEngineers ==
  [][\/ UNCHANGED vars
     \/ rebalance_workload
          => LET moves == Pass(tasks_store, agent_loads).moves
             IN  \A k \in 1..Len(moves) :
                   PctBelow(load_percentage(moves[k].loads[moves[k].target]), 50)]_vars

(***************************************************************************)
(* C26: within one rebalance pass, each task moved away from an overloaded *)
(* engineer is the first eligible task in store order and goes to the      *)
(* first engineer in registry order that is underloaded; a second task     *)
(* from the same overloaded engineer goes to that same first engineer as   *)
(* long as it remains underloaded.                                         *)
(***************************************************************************)
C26_MovesFirstTaskToFirstUnderloaded ==
  [][\/ UNCHANGED vars
     \/ rebalance_workload
          => LET moves == Pass(tasks_store, agent_loads).moves
             IN  \A k \in 1..Len(moves) :
                   LET m     == moves[k]
                       under == underloaded_engineers(m.loads)
                   IN  /\ Movable(m.store[m.task], m.source)
                       /\ \A i \in 1..(m.task - 1) : ~Movable(m.store[i], m.source)
                       /\ under # <<>>
                       /\ m.target = under[1]]_vars

\* The sum of the engineers' counters.
RECURSIVE SumLoads(_, _)
SumLoads(loads, agents) ==
  IF agents = {}
  THEN 0
  ELSE LET a == CHOOSE x \in agents : TRUE
       IN  loads[a].current_tasks + SumLoads(loads, agents \ {a})

EngineerSum(loads) ==
  SumLoads(loads, {a \in DOMAIN loads : loads[a].agent_type = "engineer"})

(***************************************************************************)
(* C27: each single move of a rebalance pass decrements the source         *)
(* engineer's current_tasks by 1, increments a different engineer's        *)
(* current_tasks by 1, appends exactly one audit comment to the moved      *)
(* task, and leaves the task's status and every other task and counter     *)
(* unchanged; the sum of all engineers' current_tasks is the same before   *)
(* and after the moves.                                                    *)
(***************************************************************************)
C27_MoveShiftsOneTaskBetweenEngineers ==
  [][\/ UNCHANGED vars
     \/ rebalance_workload
          => LET st    == Pass(tasks_store, agent_loads)
                 moves == st.moves
                 \* The store and counters right after the k-th move.
                 After(k) == IF k < Len(moves) THEN moves[k + 1] ELSE st
             IN  /\ \A k \in 1..Len(moves) :
                      LET m == moves[k]
                          n == After(k)
                      IN  /\ m.source # m.target
                          /\ m.loads[m.source].agent_type = "engineer"
                          /\ m.loads[m.target].agent_type = "engineer"
                          /\ n.loads[m.source].current_tasks
                               = m.loads[m.source].current_tasks - 1
                          /\ n.loads[m.target].current_tasks
                               = m.loads[m.target].current_tasks + 1
                          /\ \A a \in DOMAIN m.loads \ {m.source, m.target} :
                               n.loads[a] = m.loads[a]
                          /\ m.store[m.task].assigned_to = m.source
                          /\ n.store[m.task] =
                               [m.store[m.task] EXCEPT !.assigned_to = m.target,
                                                       !.comments = @ + 1]
                          /\ Len(n.store) = Len(m.store)
                          /\ \A i \in 1..Len(m.store) \ {m.task} :
                               n.store[i] = m.store[i]
                 /\ EngineerSum(ResyncedLoads(tasks_store, agent_loads))
                      = EngineerSum(agent_loads')]_vars

\* A pass has moved two tasks: one is now with Engineer2, one with Engineer3,
\* each carrying the audit comment of its move.
C27_Witness ==
  \E i, j \in TaskIndexes :
    /\ tasks_store[i].assigned_to = "Engineer2"
    /\ tasks_store[i].comments = 1
    /\ tasks_store[j].assigned_to = "Engineer3"
    /\ tasks_store[j].comments = 1

(***************************************************************************)
(* C28: with each operation and each rebalance pass taken as one atomic    *)
(* step, in every reachable state every worker's current_tasks is at       *)
(* least the number of tasks whose assigned_to is that worker, and so      *)
(* never negative: the counter can over-count but never under-counts.      *)
(***************************************************************************)
C28_CountersNeverUnderCount ==
  \A a \in Workers :
    /\ agent_loads[a].current_tasks >= AssignedCount(tasks_store, a)
    /\ agent_loads[a].current_tasks >= 0

\* An over-count: an engineer whose counter is above the number of tasks
\* assigned to it, while a tester holds a task it has claimed.
C28_Witness ==
  /\ \E e \in EngineerIds :
       agent_loads[e].current_tasks > AssignedCount(tasks_store, e)
  /\ \E t \in Testers :
       /\ AssignedCount(tasks_store, t) = 1
       /\ agent_loads[t].current_tasks = 1

(***************************************************************************)
(* The periodic rebalancer beside the manager's server.  The rebalancer    *)
(* thread (main.py 277-282) runs rebalance_periodically for ever: sleep,   *)
(* pass, log; the manager's handlers run in the thread of its server.  The *)
(* engineers have capacity LoopCapacity (the default of the coordinator),   *)
(* so that no counter of this store passes 80% and the passes only resync. *)
(* The rebalancer thread is scheduled fairly: whenever it can take its     *)
(* next step it eventually does.  Nothing obliges a caller to call.        *)
(***************************************************************************)
LoopCapacity == 5

LoopLoads ==
  [a \in AgentIds |->
     IF a \in Engineers THEN AgentLoad(a, "engineer", LoopCapacity) ELSE InitialLoads[a]]

InitLoop ==
  /\ tasks_store = <<>>
  /\ agent_loads = LoopLoads
  /\ ThreadsStarted({"ProjectManager", "Rebalancer"})

rebalance_periodically ==
  \/ rebalance_sleep
  \/ rebalance_zero
  \/ rebalance_count
  \/ rebalance_move
  \/ rebalance_raise

NextLoop ==
  \/ rebalance_sleep
  \/ rebalance_zero
  \/ rebalance_count
  \/ rebalance_move
  \/ rebalance_raise
  \/ \E id \in TaskIds, p \in PriorityInputs, t \in TypeInputs :
       api_create_task(id, p, t)
  \/ \E id \in TaskIds, a \in RaceAgentArgs : api_assign_task(id, a)

SpecLoop == InitLoop /\ [][NextLoop]_vars /\ WF_vars(rebalance_periodically)

CountersExact ==
  \A a \in Workers : agent_loads[a].current_tasks = AssignedCount(tasks_store, a)

(***************************************************************************)
(* C29: drift is corrected by the periodic rebalancer: under fair          *)
(* scheduling of the rebalance loop, from every reachable state a state is *)
(* eventually reached in which every worker's current_tasks equals the     *)
(* number of tasks assigned to it, and rebalance passes keep occurring     *)
(* infinitely often.                                                       *)
(***************************************************************************)
C29_FairRebalancerCorrectsDrift ==
  /\ []<>CountersExact
  /\ []<><<rebalance_move>>_vars

\* The tasks a pass can attribute: unassigned, or assigned to a key of the
\* registry.
Attributable(loads, task) ==
  task.assigned_to = None \/ InRegistry(loads, task.assigned_to)

AttributableTasks(store, loads) ==
  SelectSeq(store, LAMBDA task : Attributable(loads, task))

(***************************************************************************)
(* C30: a rebalance pass runs to completion on a store that holds a task   *)
(* whose assigned_to is no key of the registry: that task is skipped (not  *)
(* counted, not moved, not modified), and the other tasks are resynced and *)
(* rebalanced as a pass on the store without it would do.                  *)
(***************************************************************************)
C30_PassSkipsUnknownAssignee ==
  [][\/ UNCHANGED vars
     \/ rebalance_workload
          => LET alone == Rebalanced(AttributableTasks(tasks_store, agent_loads),
                                     agent_loads)
             IN  /\ Len(tasks_store') = Len(tasks_store)
                 /\ \A i \in TaskIndexes :
                      ~Attributable(agent_loads, tasks_store[i])
                        => tasks_store'[i] = tasks_store[i]
                 /\ AttributableTasks(tasks_store', agent_loads') = alone.store
                 /\ agent_loads' = alone.loads
                 /\ \A a \in Workers :
                      agent_loads'[a].current_tasks = AssignedCount(tasks_store', a)]_vars

\* A pass has moved a task to Engineer2 past an earlier task of the store
\* that is assigned to an identifier the registry does not hold.
C30_Witness ==
  \E i, j \in TaskIndexes :
    /\ i < j
    /\ tasks_store[i].assigned_to = Stranger
    /\ tasks_store[i].comments = 0
    /\ tasks_store[j].assigned_to = "Engineer2"
    /\ tasks_store[j].comments = 1

(***************************************************************************)
(* C31: test_task called by a tester with no available capacity on a task  *)
(* in completed status answers with an error kind (the status code of the  *)
(* HTTPException) that differs from the kind it answers with when the task *)
(* is not in completed status.                                             *)
(***************************************************************************)
C31_CapacityKindDiffersFromInvalidState ==
  \A x \in Testers, task_id \in TaskIds, other \in TaskIds :
    ( /\ HasTask(tasks_store, task_id)
      /\ TaskOf(task_id).status = "completed"
      /\ InRegistry(agent_loads, x)
      /\ available_capacity(agent_loads[x]) <= 0
      /\ HasTask(tasks_store, other)
      /\ TaskOf(other).status # "completed" )
    => TestTaskCheck(tasks_store, agent_loads, x, task_id)[1]
         # TestTaskCheck(tasks_store, agent_loads, x, other)[1]

(***************************************************************************)
(* The message loop of run_system beside the rebalancer and the manager's  *)
(* server.  The main thread leaves its loop on "exit" or on Ctrl-C, logs   *)
(* "Agent system shut down. API servers still running in background." and  *)
(* returns; nothing is passed to the threads it started.  They are daemon  *)
(* threads: they run on until the interpreter ends, and end with it        *)
(* wherever they stand.                                                    *)
(***************************************************************************)
\* main.py 288-304: `break` (or KeyboardInterrupt), the finally block, return.
run_system_exit ==
  /\ pc["Main"] = "idle"
  /\ pc' = [pc EXCEPT !["Main"] = "exit"]
  /\ UNCHANGED <<tasks_store, agent_loads, frame, start>>

\* main.py 335-337: run_system was the last statement of the program; the
\* interpreter ends and the daemon threads (258, 270, 281) end with it.
interpreter_exit ==
  /\ pc["Main"] = "exit"
  /\ pc' = [t \in Threads |-> "off"]
  /\ UNCHANGED <<tasks_store, agent_loads, frame, start>>

InitStop ==
  /\ tasks_store = <<>>
  /\ agent_loads = LoopLoads
  /\ ThreadsStarted({"ProjectManager", "Rebalancer", "Main"})

NextStop ==
  \/ NextLoop
  \/ run_system_exit
  \/ interpreter_exit

SpecStop == InitStop /\ [][NextStop]_vars

(***************************************************************************)
(* C32: the periodic rebalance loop can be stopped: once the main thread   *)
(* has signalled the stop, the rebalancer thread starts no further pass,   *)
(* and a pass it is in runs on to its end, the next sleep boundary.        *)
(***************************************************************************)
C32_StopEndsLoopAtSleepBoundary ==
  [][pc["Main"] = "exit"
       => /\ ~rebalance_zero
          /\ pc["Rebalancer"] = "rebalance_count"
               => pc'["Rebalancer"] \in {"rebalance_count", "done"}]_vars

(***************************************************************************)
(* C33: with each operation taken as one atomic step, in every reachable   *)
(* state a pending task has no assignee, an in_progress task has an        *)
(* assignee, a completed task is assigned to a worker of role engineer and *)
(* a testing task is assigned to a worker of role tester.                  *)
(***************************************************************************)
HasRole(name, role) ==
  InRegistry(agent_loads, name) /\ agent_loads[name].agent_type = role

C33_StatusDeterminesAssigneeRole ==
  \A i \in 1..Len(tasks_store) :
    LET task == tasks_store[i]
    IN  /\ task.status = "pending" => task.assigned_to = None
        /\ task.status = "in_progress" => task.assigned_to # None
        /\ task.status = "completed" => HasRole(task.assigned_to, "engineer")
        /\ task.status = "testing" => HasRole(task.assigned_to, "tester")

\* A tester has claimed one task while another, completed by an engineer,
\* waits for a tester.
C33_Witness ==
  /\ Len(tasks_store) = 2
  /\ \E i, j \in 1..2 :
       /\ tasks_store[i].status = "testing"
       /\ tasks_store[i].assigned_to \in Testers
       /\ tasks_store[j].status = "completed"
       /\ tasks_store[j].assigned_to \in Engineers

(***************************************************************************)
(* C34: load is released when work is closed: the next rebalance pass      *)
(* leaves a worker all of whose tasks are approved with current_tasks 0,   *)
(* and after it a tester whose claimed tasks were all approved can claim   *)
(* any completed task.                                                     *)
(***************************************************************************)
AllApproved(store, a) ==
  \A i \in 1..Len(store) : store[i].assigned_to = a => store[i].status = "approved"

C34_PassReleasesApprovedWork ==
  LET after == Rebalanced(tasks_store, agent_loads)
  IN  \A a \in Workers :
        AllApproved(after.store, a)
          => /\ after.loads[a].current_tasks = 0
             /\ a \in Testers
                  => \A i \in 1..Len(after.store) :
                       after.store[i].status = "completed"
                         => TestTaskCheck(after.store, after.loads, a,
                                          after.store[i].id)[1] = 200

(***************************************************************************)
(* C35: after any completed operation no task in the store has status      *)
(* rejected or failed: the only statuses stored are pending, in_progress,  *)
(* completed, testing and approved, and a rejection by review_task shows   *)
(* as the task's transition to pending.                                    *)
(***************************************************************************)
StoredStatuses == {"pending", "in_progress", "completed", "testing", "approved"}

C35_RejectedAndFailedNeverStored ==
  /\ [](\A i \in 1..Len(tasks_store) : tasks_store[i].status \in StoredStatuses)
  /\ [][\/ UNCHANGED vars
        \/ \A task_id \in TaskIds, comment \in BOOLEAN :
             (~ReviewFails(task_id) /\ api_review_task(task_id, FALSE, comment))
               => tasks_store'[IndexOf(tasks_store, task_id)].status = "pending"]_vars

\* One task was rejected after work was recorded on it and waits again,
\* while the other was approved.
C35_Witness ==
  \E i, j \in 1..Len(tasks_store) :
    /\ tasks_store[i].status = "pending"
    /\ tasks_store[i].comments > 0
    /\ tasks_store[j].status = "approved"

(***************************************************************************)
(* C36: a task's test_results belong to its current test cycle: a task     *)
(* whose status is pending, in_progress or completed carries no            *)
(* test_results record, also after it was rejected from testing and        *)
(* queued again.                                                           *)
(***************************************************************************)
C36_TestResultsOnlyInCurrentCycle ==
  \A i \in 1..Len(tasks_store) :
    tasks_store[i].status \in {"pending", "in_progress", "completed"}
      => tasks_store[i].test_results = NoTestResults

(***************************************************************************)
(* A ManagerAgent on registries whose engineers differ in max_capacity.    *)
(* AgentLoad.max_capacity is a field of each worker's record (common.py    *)
(* 57) and the constructor of the manager takes the registry as it is; the *)
(* coordinator gives its three engineers one capacity, which is the case   *)
(* of equal entries.                                                       *)
(***************************************************************************)
MaxCapacity == 2

CapacityLoads(caps) ==
  [a \in AgentIds |->
     IF a \in Engineers THEN AgentLoad(a, "engineer", caps[a]) ELSE InitialLoads[a]]

InitCapacity ==
  /\ tasks_store = <<>>
  /\ \E caps \in [Engineers -> 0..MaxCapacity] : agent_loads = CapacityLoads(caps)
  /\ ThreadsIdle

SpecCapacity == InitCapacity /\ [][NextManager]_vars

AgentType(name) ==
  IF name \in Engineers THEN "engineer"
  ELSE IF name \in Testers THEN "tester"
  ELSE "manager"

\* _setup_method_mapping, for the operations that write (lines 41-67).
method_mapping(agent_type) ==
  IF agent_type = "manager"
  THEN [assign_task |-> "api_assign_task"]
  ELSE IF agent_type = "engineer"
  THEN [work_on_task |-> "api_work_on_task", complete_task |-> "api_complete_task"]
  ELSE [test_task |-> "api_test_task", submit_test_results |-> "api_submit_test_results"]

\* Lines 152-211: a request object is built for the manager's methods only;
\* "For all other methods, just pass the parameters directly".
format_parameters(params, method_name) ==
  IF method_name = "api_assign_task"
  THEN [request |-> [task_id  |-> params.task_id,
                     agent_id |-> IF "agent_id" \in DOMAIN params
                                  THEN params.agent_id ELSE None]]
  ELSE params

\* Every api_* method is declared (self, request: ...Request = Body(...)).
MethodKeywords == {"request"}

\* Line 114, `await method(**formatted_params)`, on keywords that bind.
MethodCall(name, method_name, kwargs) ==
  IF method_name = "api_assign_task"
  THEN api_assign_task(kwargs.request.task_id, kwargs.request.agent_id)
  ELSE IF method_name = "api_work_on_task"
  THEN api_work_on_task(name, kwargs.request.task_id)
  ELSE IF method_name = "api_complete_task"
  THEN api_complete_task(name, kwargs.request.task_id)
  ELSE IF method_name = "api_test_task"
  THEN api_test_task(name, kwargs.request.task_id)
  ELSE api_submit_test_results(name, kwargs.request.task_id, kwargs.request.passed)

\* Lines 99-118.  A keyword the method does not declare raises TypeError at
\* line 114, before the method body runs; `except Exception` (116-118)
\* returns it as {"error": ...}, like an HTTPException of the method.
process_command(name, operation, params) ==
  /\ operation \in DOMAIN method_mapping(AgentType(name))
  /\ LET method_name == method_mapping(AgentType(name))[operation]
         kwargs      == format_parameters(params, method_name)
     IN  IF DOMAIN kwargs = MethodKeywords
         THEN MethodCall(name, method_name, kwargs)
         ELSE UNCHANGED vars

\* The resolved commands of the workers' writing operations.
WorkerCommands ==
  {[agent |-> e, operation |-> op, parameters |-> [task_id |-> id]] :
     e \in Engineers, op \in {"work_on_task", "complete_task"}, id \in TaskIds}
  \cup
  {[agent |-> x, operation |-> "test_task", parameters |-> [task_id |-> id]] :
     x \in Testers, id \in TaskIds}
  \cup
  {[agent |-> x, operation |-> "submit_test_results",
    parameters |-> [task_id |-> id, passed |-> passed]] :
     x \in Testers, id \in TaskIds, passed \in BOOLEAN}

ManagerCommands ==
  {[agent |-> "ProjectManager", operation |-> "assign_task",
    parameters |-> [task_id |-> id]] : id \in TaskIds}
  \cup
  {[agent |-> "ProjectManager", operation |-> "assign_task",
    parameters |-> [task_id |-> id, agent_id |-> a]] :
     id \in TaskIds, a \in {"Engineer2", "Tester1"}}

\* The coordinator's agents behind the command loop of run_system (main.py
\* 288-304), which routes every command through process_command; the tasks
\* are those create_sample_tasks stores by calling api_create_task itself.
NextNLP ==
  \/ \E id \in TaskIds, p \in PriorityInputs, t \in TypeInputs :
       api_create_task(id, p, t)
  \/ \E cmd \in WorkerCommands \cup ManagerCommands :
       process_command(cmd.agent, cmd.operation, cmd.parameters)

SpecNLP == Init /\ [][NextNLP]_vars

\* The worker operation called directly with the request the command names.
DirectCall(cmd) ==
  IF cmd.operation = "work_on_task"
  THEN api_work_on_task(cmd.agent, cmd.parameters.task_id)
  ELSE IF cmd.operation = "complete_task"
  THEN api_complete_task(cmd.agent, cmd.parameters.task_id)
  ELSE IF cmd.operation = "test_task"
  THEN api_test_task(cmd.agent, cmd.parameters.task_id)
  ELSE api_submit_test_results(cmd.agent, cmd.parameters.task_id, cmd.parameters.passed)

(***************************************************************************)
(* C38: a resolved command for work_on_task, complete_task, test_task or   *)
(* submit_test_results with a valid task_id, routed through the NLP        *)
(* command handler, performs the state transition of the operation called  *)
(* directly (it changes the state where the direct call does, and to the   *)
(* same state), and the handler always returns: a failure of the operation *)
(* is an error value.                                                      *)
(***************************************************************************)
C38_RoutedCommandActsAsDirectCall ==
  /\ [](\A cmd \in WorkerCommands :
          HasTask(tasks_store, cmd.parameters.task_id)
            => /\ ENABLED process_command(cmd.agent, cmd.operation, cmd.parameters)
               /\ (ENABLED <<DirectCall(cmd)>>_vars)
                    => ENABLED <<process_command(cmd.agent, cmd.operation,
                                                 cmd.parameters)>>_vars)
  /\ [][\A cmd \in WorkerCommands :
          ( /\ HasTask(tasks_store, cmd.parameters.task_id)
            /\ process_command(cmd.agent, cmd.operation, cmd.parameters) )
          => DirectCall(cmd)]_vars

====
